---- MODULE Spec2Model ----
(***************************************************************************)
(* Naive Bayes classifiers of the Baymax repository.                       *)
(*                                                                         *)
(*   categorical : class NaiveBayesClassifier (NB-income-census.ipynb)     *)
(*   multinomial : the module-level training cell and classify() of the    *)
(*                 spam notebook (src/unnamed/part_000)                    *)
(*                                                                         *)
(* np.log(n/d) of a rational n/d is kept symbolically as the pair          *)
(* [num |-> n, den |-> d]; a sum of logs is the log of the product, so a   *)
(* score is again such a pair, plus a separate rational part for numbers   *)
(* that the code adds to the sum without taking their logarithm.           *)
(***************************************************************************)
EXTENDS Integers, Sequences, FiniteSets, TLC

VARIABLES encoding, self, data, new_instance, nb, corpus, words, outcome, train_calls

vars == <<encoding, self, data, new_instance, nb, corpus, words, outcome, train_calls>>

\* encoding     which of the two notebooks runs
\* self         the NaiveBayesClassifier object
\* data         the DataFrame of the last train call
\* new_instance the dict handed to predict
\* nb           the module globals the spam training cell leaves
\* corpus       the shuffled_data those globals were computed from
\* words        the words of the message handed to classify
\* outcome      how the last call ended: its exception or return value
\* train_calls  how often training has been run so far

(* ------------------------------ bounds --------------------------------- *)
MaxRows  == 2      \* rows of a training DataFrame
MaxAlpha == 2      \* smoothing parameters 0..MaxAlpha given to __init__
MaxDocs  == 3      \* messages in the spam corpus
MaxWords == 1      \* words of one training message
MaxMsg   == 2      \* words of one classified message
MaxTrainCalls == 2 \* training runs before the test loop starts

(* ------------------------- python values ------------------------------- *)
None    == <<>>
Some(x) == <<x>>

EmptyMap  == <<>>                              \* {} read as a mapping
EmptyDict == [keys |-> <<>>, at |-> <<>>]      \* {} with its insertion order

\* d[k] = v on an insertion-ordered dict
DictSet(d, k, v) ==
    [keys |-> IF k \in DOMAIN d.at THEN d.keys ELSE Append(d.keys, k),
     at   |-> (k :> v) @@ d.at]

\* f[k] = v on a plain mapping
MapSet(f, k, v) == (k :> v) @@ f

Range(s) == {s[i] : i \in DOMAIN s}

RECURSIVE SumOver(_, _)
SumOver(S, f) ==
    IF S = {} THEN 0
    ELSE LET x == CHOOSE y \in S : TRUE IN f[x] + SumOver(S \ {x}, f)

(* --------------------------- log-space --------------------------------- *)
\* np.log(n / d); num = 0 stands for -inf
Log(n, d) == [num |-> n, den |-> d]

\* a running log_prob: log(num/den) + rawn/rawd
Score(l) == [num |-> l.num, den |-> l.den, rawn |-> 0, rawd |-> 1]

\* log_prob += np.log value
AddLog(s, l) == [s EXCEPT !.num = s.num * l.num, !.den = s.den * l.den]

\* log_prob += n/d (a plain number, not a logarithm)
AddRaw(s, n, d) == [s EXCEPT !.rawn = s.rawn * d + n * s.rawd, !.rawd = s.rawd * d]

LogEq(s, t)   == s.num * t.den = t.num * s.den
LogLess(s, t) == s.num * t.den < t.num * s.den
RawEq(s, t)   == s.rawn * t.rawd = t.rawn * s.rawd
RawLess(s, t) == s.rawn * t.rawd < t.rawn * s.rawd

\* s < t as real numbers.  log of a rational is rational only when it is 0,
\* so two scores are equal exactly when both parts are; the order is decided
\* by one part when the other part agrees (RawPartsAgree: it always does).
ScoreEq(s, t)   == LogEq(s, t) /\ RawEq(s, t)
ScoreLess(s, t) == IF RawEq(s, t) THEN LogLess(s, t)
                   ELSE IF LogEq(s, t) THEN RawLess(s, t)
                   ELSE LogLess(s, t)

\* max(class_probabilities, key=class_probabilities.get): the first key, in
\* the dict's iteration order, whose value no other value exceeds
PyMax(cp) ==
    LET n == Len(cp.keys)
        best == CHOOSE i \in 1..n :
                  /\ \A j \in 1..n : ~ScoreLess(cp.at[cp.keys[i]], cp.at[cp.keys[j]])
                  /\ \A j \in 1..(i-1) : ScoreLess(cp.at[cp.keys[j]], cp.at[cp.keys[i]])
    IN cp.keys[best]

(* ===================== categorical: NaiveBayesClassifier ================ *)
target_class  == "sex"
ClassLabels   == {"Female", "Male"}
FeatureNames  == <<"education", "income">>
FeatureValues == {"x", "y"}
ExtraFeature  == "zipcode"                 \* a column no training frame has

\* the fixed total order over labels (lexicographic)
SortedLabels == <<"Female", "Male", "ham", "spam">>
LabelRank(l) == CHOOSE i \in DOMAIN SortedLabels : SortedLabels[i] = l

Alphas == 0..MaxAlpha

\* DataFrames: a column list (target first) and rows giving every column
ColumnLists == {<<target_class>> \o SubSeq(FeatureNames, 1, k) : k \in 1..Len(FeatureNames)}
RowsOver(cols) ==
    {r \in [Range(cols) -> ClassLabels \cup FeatureValues] :
        /\ r[target_class] \in ClassLabels
        /\ \A c \in Range(cols) \ {target_class} : r[c] \in FeatureValues}
RECURSIVE SeqsUpTo(_, _)
SeqsUpTo(S, n) ==
    IF n = 0 THEN {<<>>}
    ELSE LET shorter == SeqsUpTo(S, n - 1)
         IN shorter \cup {Append(s, x) : s \in {t \in shorter : Len(t) = n - 1}, x \in S}
DataFrames ==
    UNION {{[columns |-> cols, rows |-> rs] : rs \in SeqsUpTo(RowsOver(cols), MaxRows)} :
           cols \in ColumnLists}

\* __init__
NaiveBayesClassifier(a) ==
    [alpha |-> a, log_priors |-> None, class_conditional_probs |-> None, features |-> None]

\* len(data[(data[target_class] == class_value) & (data[feature] == feature_value)])
CountRows(df, target, class_value, feature, feature_value) ==
    Cardinality({i \in DOMAIN df.rows :
                   df.rows[i][target] = class_value /\ df.rows[i][feature] = feature_value})

\* data[feature].unique()
Unique(df, feature) == {df.rows[i][feature] : i \in DOMAIN df.rows}

\* = 1 in both branches
count_label_reset(cf, class_label) == DictSet(cf, class_label, 1)

\* the body of the counting loop: += 1 for a known label, = 1 for a new one
count_label(cf, class_label) ==
    IF class_label \in DOMAIN cf.at
    THEN DictSet(cf, class_label, cf.at[class_label] + 1)
    ELSE DictSet(cf, class_label, 1)

\* the counting loop of train: one pass over range(training_instances)
RECURSIVE class_frequencies(_, _, _, _)
class_frequencies(df, target, i, cf) ==
    IF i > Len(df.rows) THEN cf
    ELSE class_frequencies(df, target, i + 1, count_label(cf, df.rows[i][target]))

\* the dict of the previous call kept instead of a new one
stale_log_priors(me) == IF me.log_priors = None THEN EmptyDict ELSE me.log_priors[1]

\* self.log_priors = {}
fresh_log_priors(me) == EmptyDict

\* self.class_conditional_probs = {}
fresh_class_conditional_probs(me) == EmptyMap

\* the denominator with the number of classes fixed at 2
theta_two_classes(freq, a, training_instances, K) == Log(freq + a, training_instances + a * 2)

\* theta = (freq + alpha) / (training_instances + alpha * len(class_frequencies))
theta(freq, a, training_instances, K) == Log(freq + a, training_instances + a * K)

\* the loop over class_frequencies.items() that fills self.log_priors
RECURSIVE fill_log_priors(_, _, _, _, _)
fill_log_priors(lp, cf, i, a, training_instances) ==
    IF i > Len(cf.keys) THEN lp
    ELSE LET class_label == cf.keys[i]
         IN fill_log_priors(
               DictSet(lp, class_label,
                       theta(cf.at[class_label], a, training_instances, Len(cf.keys))),
               cf, i + 1, a, training_instances)

\* total_count: summed over the feature's unique values for one class
total_count(df, target, class_value, feature) ==
    SumOver(Unique(df, feature),
            [v \in Unique(df, feature) |-> CountRows(df, target, class_value, feature, v)])

\* len(data[feature]): the rows, not the distinct values
V_j_rows(df, feature) == Len(df.rows)

\* V_j = len(data[feature].unique())
V_j(df, feature) == Cardinality(Unique(df, feature))

\* theta_k_j_v = (N_k_vj + alpha) / (total_count + alpha * V_j)
theta_k_j_v(df, target, class_value, feature, feature_value, a) ==
    Log(CountRows(df, target, class_value, feature, feature_value) + a,
        total_count(df, target, class_value, feature) + a * V_j(df, feature))

\* the columns that are not the target, in column order
RECURSIVE feature_columns(_, _)
feature_columns(cols, target) ==
    IF cols = <<>> THEN <<>>
    ELSE (IF Head(cols) # target THEN <<Head(cols)>> ELSE <<>>)
         \o feature_columns(Tail(cols), target)

\* the nested loops that fill self.class_conditional_probs: every class gets
\* a fresh {} and then one table per feature that has at least one value
fill_class_conditional_probs(ccp, df, target, cf, a) ==
    LET feats == {f \in Range(feature_columns(df.columns, target)) : Unique(df, f) # {}}
    IN [class_value \in DOMAIN cf.at |->
          [feature \in feats |->
             [feature_value \in Unique(df, feature) |->
                theta_k_j_v(df, target, class_value, feature, feature_value, a)]]]
       @@ ccp

\* NaiveBayesClassifier.train: the object after the call, and how it ended
train(me, df, target) ==
    LET training_instances == Len(df.rows)
        cf  == class_frequencies(df, target, 1, EmptyDict)
        lp  == fill_log_priors(fresh_log_priors(me), cf, 1, me.alpha, training_instances)
        ccp == fill_class_conditional_probs(fresh_class_conditional_probs(me),
                                            df, target, cf, me.alpha)
    IN [self |-> [alpha |-> me.alpha,
                  log_priors |-> Some(lp),
                  class_conditional_probs |-> Some(ccp),
                  features |-> Some(feature_columns(df.columns, target))],
        exc  |-> "none"]

NoScores == EmptyDict

\* new_instance.get(feature)
Get(inst, feature) == IF feature \in DOMAIN inst THEN Some(inst[feature]) ELSE None

\* self.class_conditional_probs[class_label][feature][feature_value] raises
Missing(ccp, class_label, feature, got) ==
    \/ class_label \notin DOMAIN ccp
    \/ feature \notin DOMAIN ccp[class_label]
    \/ got = None
    \/ got[1] \notin DOMAIN ccp[class_label][feature]

\* the inner loop of predict: log_prob after the features from index i on
RECURSIVE add_features(_, _, _, _, _, _)
add_features(ccp, class_label, feats, i, inst, log_prob) ==
    IF i > Len(feats) THEN log_prob
    ELSE add_features(ccp, class_label, feats, i + 1, inst,
                      AddLog(log_prob, ccp[class_label][feats[i]][Get(inst, feats[i])[1]]))

\* the outer loop of predict: class_probabilities, filled in key order
RECURSIVE class_probabilities(_, _, _, _)
class_probabilities(me, inst, i, cp) ==
    LET lp == me.log_priors[1] IN
    IF i > Len(lp.keys) THEN cp
    ELSE LET class_label == lp.keys[i]
         IN class_probabilities(me, inst, i + 1,
               DictSet(cp, class_label,
                       add_features(me.class_conditional_probs[1], class_label,
                                    me.features[1], 1, inst,
                                    Score(lp.at[class_label]))))

\* what predict returns or raises
predict_result(me, inst) ==
    LET fail(e) == [ret |-> "None", exc |-> e, scores |-> NoScores]
    IN IF me.log_priors = None THEN fail("AttributeError")
       ELSE IF \E c \in Range(me.log_priors[1].keys), f \in Range(me.features[1]) :
                  Missing(me.class_conditional_probs[1], c, f, Get(inst, f))
       THEN fail("KeyError")
       ELSE IF me.log_priors[1].keys = <<>> THEN fail("ValueError")
       ELSE LET cp == class_probabilities(me, inst, 1, EmptyDict)
            IN [ret |-> PyMax(cp), exc |-> "none", scores |-> cp]

\* new_instance.pop(feature) in place of new_instance.get(feature)
predict_pop(me, inst) ==
    [result |-> predict_result(me, inst), self |-> me,
     new_instance |-> IF me.features = None THEN inst
                      ELSE [f \in DOMAIN inst \ Range(me.features[1]) |-> inst[f]]]

\* NaiveBayesClassifier.predict: its result, and the object and the argument
\* as the call leaves them (it assigns to neither)
predict(me, inst) ==
    [result |-> predict_result(me, inst), self |-> me, new_instance |-> inst]

\* the dicts the test loop hands to predict
Instances ==
    {inst \in UNION {[S -> FeatureValues] :
                       S \in SUBSET (Range(FeatureNames) \cup {ExtraFeature})} :
        ExtraFeature \in DOMAIN inst => inst[ExtraFeature] = "x"}

(* ======================= multinomial: spam notebook ===================== *)
TrainWords == {"win", "money"}
UnseenWord == "prize"                      \* a word no training message has

Texts     == SeqsUpTo(TrainWords, MaxWords)
Documents == [Label : {"ham", "spam"}, Text : Texts]
Corpora   == SeqsUpTo(Documents, MaxDocs)
Messages  == SeqsUpTo(TrainWords \cup {UnseenWord}, MaxMsg)

\* iteration orders of the set literal {'ham', 'spam'}
SetOrders == {<<"ham", "spam">>, <<"spam", "ham">>}

\* shuffled_data["Label"].value_counts(): the counts, largest first
value_counts(docs) ==
    LET cnt(l) == Cardinality({i \in DOMAIN docs : docs[i].Label = l})
        present == {l \in {"ham", "spam"} : cnt(l) > 0}
        hi == CHOOSE l \in present : \A m \in present : cnt(m) <= cnt(l)
    IN IF present = {} THEN <<>>
       ELSE IF Cardinality(present) = 1 THEN <<cnt(hi)>>
       ELSE <<cnt(hi), cnt(CHOOSE l \in present : l # hi)>>

\* split_index = int(len(shuffled_data) * 0.8)
split_index(docs) == (Len(docs) * 8) \div 10

\* the loop that collects the vocabulary from the training texts
RECURSIVE vocabulary(_, _, _)
vocabulary(docs, i, voc) ==
    IF i > Len(docs) THEN voc
    ELSE vocabulary(docs, i + 1, voc \cup Range(docs[i].Text))

\* for word in text: word_frequency[label][word] += 1; words_in_label += 1
RECURSIVE count_text(_, _, _)
count_text(text, j, acc) ==
    IF j > Len(text) THEN acc
    ELSE count_text(text, j + 1,
                    [freq  |-> MapSet(acc.freq, text[j], acc.freq[text[j]] + 1),
                     total |-> acc.total + 1])

\* for text in <label>_messages['Text']: ...
RECURSIVE word_frequency(_, _, _, _)
word_frequency(docs, label, i, acc) ==
    IF i > Len(docs) THEN acc
    ELSE word_frequency(docs, label, i + 1,
                        IF docs[i].Label = label THEN count_text(docs[i].Text, 1, acc)
                        ELSE acc)

\* N_words as the two if/else blocks pick it
N_words(k, words_in_spam, words_in_ham) ==
    IF k = "spam" THEN words_in_spam ELSE words_in_ham

\* prob = (N_wi_label + alpha) / (N_words + alpha * N_vocab), stored as its log
word_log_prob(wf, k, word, a, words_in_spam, words_in_ham, N_vocab) ==
    Log(wf[k][word] + a, N_words(k, words_in_spam, words_in_ham) + a * N_vocab)

\* log_priors = {'ham': np.log(P_ham), 'spam': np.log(P_spam)}
log_priors(N_ham, N_spam, n, number_of_classes) ==
    DictSet(DictSet(EmptyDict, "ham",  Log(N_ham + 1,  n + number_of_classes)),
            "spam", Log(N_spam + 1, n + number_of_classes))

\* the training cell, run on a shuffled corpus with one iteration order of
\* the label set: the globals it leaves, and how it ended
training_cell(old, docs, order) ==
    LET vc   == value_counts(docs)
        training_data == SubSeq(docs, 1, split_index(docs))
        voc  == vocabulary(training_data, 1, {})
        zero == [w \in voc |-> 0]
        spam == word_frequency(training_data, "spam", 1, [freq |-> zero, total |-> 0])
        ham  == word_frequency(training_data, "ham",  1, [freq |-> zero, total |-> 0])
        wf   == [k \in Range(order) |-> IF k = "spam" THEN spam.freq ELSE ham.freq]
        alpha == 1
        N_vocab == Cardinality(voc)
    IN IF Len(vc) < 2 THEN [nb |-> old, exc |-> "IndexError"]
       ELSE [nb |-> Some([log_priors     |-> log_priors(vc[1], vc[2], Len(docs), 2),
                          vocabulary     |-> voc,
                          word_frequency |-> wf,
                          words_in_spam  |-> spam.total,
                          words_in_ham   |-> ham.total,
                          alpha          |-> alpha,
                          N_vocab        |-> N_vocab,
                          key            |-> order[Len(order)],
                          word_log_prob  |->
                             [k \in Range(order) |->
                                [w \in voc |-> word_log_prob(wf, k, w, alpha, spam.total,
                                                             ham.total, N_vocab)]]]),
             exc |-> "none"]

\* (1 + alpha) / (N_words + alpha * len(vocabulary)): numerator and denominator
fallback_prob(g, class_label) ==
    <<1 + g.alpha,
      N_words(g.key, g.words_in_spam, g.words_in_ham) + g.alpha * Cardinality(g.vocabulary)>>

\* one step of the word loop of classify
add_word(g, class_label, word, log_prob) ==
    IF word \in g.vocabulary
    THEN AddLog(log_prob, g.word_log_prob[class_label][word])
    ELSE AddRaw(log_prob, fallback_prob(g, class_label)[1], fallback_prob(g, class_label)[2])

RECURSIVE add_words(_, _, _, _, _)
add_words(g, class_label, ws, j, log_prob) ==
    IF j > Len(ws) THEN log_prob
    ELSE add_words(g, class_label, ws, j + 1, add_word(g, class_label, ws[j], log_prob))

RECURSIVE message_probabilities(_, _, _, _)
message_probabilities(g, ws, i, cp) ==
    IF i > Len(g.log_priors.keys) THEN cp
    ELSE LET class_label == g.log_priors.keys[i]
         IN message_probabilities(g, ws, i + 1,
               DictSet(cp, class_label,
                       add_words(g, class_label, ws, 1, Score(g.log_priors.at[class_label]))))

\* what classify returns or raises, on the words of the cleaned message
classify_result(globals, ws) ==
    LET fail(e) == [ret |-> "None", exc |-> e, scores |-> NoScores]
    IN IF globals = None THEN fail("NameError")
       ELSE LET g == globals[1] IN
            IF /\ \E j \in DOMAIN ws : ws[j] \notin g.vocabulary
               /\ \E c \in Range(g.log_priors.keys) : fallback_prob(g, c)[2] = 0
            THEN fail("ZeroDivisionError")
            ELSE LET cp == message_probabilities(g, ws, 1, EmptyDict)
                 IN [ret |-> PyMax(cp), exc |-> "none", scores |-> cp]

\* classify: its result, and the globals and the argument as the call leaves
\* them (message and words are locals; no global is assigned)
classify(globals, ws) ==
    [result |-> classify_result(globals, ws), nb |-> globals, words |-> ws]

(* ============================ the state machine ======================== *)
Outcome(op, r) == [op |-> op, exc |-> r.exc, ret |-> r.ret, scores |-> r.scores]
Quiet(op, e)   == [op |-> op, exc |-> e, ret |-> "None", scores |-> NoScores]

Init ==
    /\ encoding \in {"categorical", "multinomial"}
    /\ self \in {NaiveBayesClassifier(a) :
                   a \in IF encoding = "categorical" THEN Alphas ELSE {1}}
    /\ data = None
    /\ new_instance = EmptyMap
    /\ nb = None
    /\ corpus = None
    /\ words = <<>>
    /\ outcome = Quiet("init", "none")
    /\ train_calls = 0

\* classifier.train(train_data, target_class); training comes before the test
\* loop, as in the notebook
Train(df) ==
    /\ encoding = "categorical"
    /\ outcome.op \in {"init", "train"}
    /\ train_calls < MaxTrainCalls
    /\ train_calls' = train_calls + 1
    /\ LET r == train(self, df, target_class)
       IN /\ self' = r.self
          /\ outcome' = Quiet("train", r.exc)
    /\ data' = Some(df)
    /\ UNCHANGED <<encoding, new_instance, nb, corpus, words>>

\* the test loop fills new_instance from a test row
BuildInstance(inst) ==
    /\ encoding = "categorical"
    /\ new_instance' = inst
    /\ outcome' = Quiet("instance", "none")
    /\ UNCHANGED <<encoding, self, data, nb, corpus, words, train_calls>>

\* classifier.predict(new_instance)
Predict ==
    /\ encoding = "categorical"
    /\ outcome.op = "instance"
    /\ LET r == predict(self, new_instance)
       IN /\ self' = r.self
          /\ new_instance' = r.new_instance
          /\ outcome' = Outcome("predict", r.result)
    /\ UNCHANGED <<encoding, data, nb, corpus, words, train_calls>>

\* running the training cell of the spam notebook, before any classify call
RunTrainingCell(docs, order) ==
    /\ encoding = "multinomial"
    /\ outcome.op \in {"init", "train"}
    /\ train_calls < MaxTrainCalls
    /\ train_calls' = train_calls + 1
    /\ LET r == training_cell(nb, docs, order)
       IN /\ nb' = r.nb
          /\ outcome' = Quiet("train", r.exc)
          /\ corpus' = IF r.exc = "none" THEN Some(docs) ELSE corpus
    /\ UNCHANGED <<encoding, self, data, new_instance, words>>

\* text = testing_data.iloc[i][1], cleaned and split
ReadMessage(ws) ==
    /\ encoding = "multinomial"
    /\ words' = ws
    /\ outcome' = Quiet("message", "none")
    /\ UNCHANGED <<encoding, self, data, new_instance, nb, corpus, train_calls>>

\* classify(text)
Classify ==
    /\ encoding = "multinomial"
    /\ outcome.op = "message"
    /\ LET r == classify(nb, words)
       IN /\ nb' = r.nb
          /\ words' = r.words
          /\ outcome' = Outcome("classify", r.result)
    /\ UNCHANGED <<encoding, self, data, new_instance, corpus, train_calls>>

Next ==
    \/ \E df \in DataFrames : Train(df)
    \/ \E inst \in Instances : BuildInstance(inst)
    \/ Predict
    \/ \E docs \in Corpora, order \in SetOrders : RunTrainingCell(docs, order)
    \/ \E ws \in Messages : ReadMessage(ws)
    \/ Classify

Spec == Init /\ [][Next]_vars

TypeOK == outcome.exc \in {"none", "AttributeError", "KeyError", "ValueError",
                           "IndexError", "NameError", "ZeroDivisionError"}

(* ====================== what the claims speak about ==================== *)
CatTrained == encoding = "categorical" /\ self.log_priors # None
MnTrained  == encoding = "multinomial" /\ nb # None

\* the training instances the stored tables were computed from
TrainingRows == data[1].rows
TrainingDocs == SubSeq(corpus[1], 1, split_index(corpus[1]))

LabelsIn(rows)        == {rows[i][target_class] : i \in DOMAIN rows}
RowsOfClass(rows, k)  == Cardinality({i \in DOMAIN rows : rows[i][target_class] = k})
DocLabels(docs)       == {docs[i].Label : i \in DOMAIN docs}
DocsOfClass(docs, k)  == Cardinality({i \in DOMAIN docs : docs[i].Label = k})

RECURSIVE SumLogs(_, _)
SumLogs(s, terms) ==
    IF terms = <<>> THEN s ELSE SumLogs(AddLog(s, Head(terms)), Tail(terms))

\* log((N_{k,f,v} + alpha) / (N_k + alpha * V_f)) taken from the training rows
SmoothedValue(k, f, v) ==
    Log(CountRows(data[1], target_class, k, f, v) + self.alpha,
        RowsOfClass(TrainingRows, k) + self.alpha * Cardinality(Unique(data[1], f)))

\* log_prior(k) + the smoothed value of every feature of new_instance
SmoothedScore(k) ==
    LET feats == self.features[1]
    IN SumLogs(Score(self.log_priors[1].at[k]),
               [i \in DOMAIN feats |-> SmoothedValue(k, feats[i], new_instance[feats[i]])])

\* the event total of class k in the spam globals
WordsOf(g, k) == IF k = "spam" THEN g.words_in_spam ELSE g.words_in_ham

\* log_prior(k) + per word the stored value, or log(alpha / (N_k + alpha * V))
SmoothedMessageScore(k) ==
    LET g == nb[1]
    IN SumLogs(Score(g.log_priors.at[k]),
               [j \in DOMAIN words |->
                  IF words[j] \in g.vocabulary THEN g.word_log_prob[k][words[j]]
                  ELSE Log(g.alpha, WordsOf(g, k) + g.alpha * Cardinality(g.vocabulary))])

UnseenValue ==
    /\ CatTrained /\ self.alpha > 0 /\ TrainingRows # <<>>
    /\ DOMAIN new_instance = Range(self.features[1])
    /\ \E f \in DOMAIN new_instance : new_instance[f] \notin Unique(data[1], f)

UnseenToken ==
    /\ MnTrained /\ nb[1].alpha > 0
    /\ \E j \in DOMAIN words : words[j] \notin nb[1].vocabulary

\* C1: with alpha > 0, scoring an instance that has an unseen value of a known
\* feature (predict) or a token outside the vocabulary (classify) raises
\* nothing, and the score of every class k is its prior plus, for the unseen
\* event, exactly log((0 + alpha) / (N_k + alpha * V)).
C1_UnseenEventSmoothed ==
    /\ (outcome.op = "predict" /\ UnseenValue) =>
          /\ outcome.exc = "none"
          /\ \A k \in DOMAIN self.log_priors[1].at :
                /\ k \in DOMAIN outcome.scores.at
                /\ ScoreEq(outcome.scores.at[k], SmoothedScore(k))
    /\ (outcome.op = "classify" /\ UnseenToken) =>
          /\ outcome.exc = "none"
          /\ \A k \in DOMAIN nb[1].log_priors.at :
                /\ k \in DOMAIN outcome.scores.at
                /\ ScoreEq(outcome.scores.at[k], SmoothedMessageScore(k))

\* the two halves of C1, one per encoding
C1_CategoricalHalf ==
    (outcome.op = "predict" /\ UnseenValue) => outcome.exc = "none"
C1_MultinomialHalf ==
    (outcome.op = "classify" /\ UnseenToken /\ outcome.exc = "none") =>
        \A k \in DOMAIN nb[1].log_priors.at :
            ScoreEq(outcome.scores.at[k], SmoothedMessageScore(k))

\* the plain numbers classify adds are the same for every class, so they
\* never decide which score is larger
RawPartsAgree ==
    \A k1, k2 \in DOMAIN outcome.scores.at :
        RawEq(outcome.scores.at[k1], outcome.scores.at[k2])

\* the words of the training messages labelled k
RECURSIVE WordsInClass(_, _)
WordsInClass(docs, k) ==
    IF docs = <<>> THEN 0
    ELSE (IF Head(docs).Label = k THEN Len(Head(docs).Text) ELSE 0)
         + WordsInClass(Tail(docs), k)

Numerators(tbl) == SumOver(DOMAIN tbl, [v \in DOMAIN tbl |-> tbl[v].num])

\* C2: after training on a non-empty training set with alpha > 0, for every
\* class and feature (categorical), and for every class over the vocabulary
\* (multinomial), the stored numerators N + alpha summed over the whole domain
\* equal the denominator N_k + alpha * V of every entry, so the conditional
\* probabilities sum to 1.
C2_ConditionalsSumToOne ==
    /\ (CatTrained /\ self.alpha > 0 /\ TrainingRows # <<>>) =>
          \A k \in LabelsIn(TrainingRows), f \in Range(self.features[1]) :
             /\ k \in DOMAIN self.class_conditional_probs[1]
             /\ f \in DOMAIN self.class_conditional_probs[1][k]
             /\ LET tbl == self.class_conditional_probs[1][k][f]
                IN /\ DOMAIN tbl = Unique(data[1], f)
                   /\ \A v \in DOMAIN tbl :
                         /\ tbl[v].den = Numerators(tbl)
                         /\ tbl[v].den = RowsOfClass(TrainingRows, k)
                                         + self.alpha * Cardinality(DOMAIN tbl)
    /\ (MnTrained /\ nb[1].alpha > 0 /\ TrainingDocs # <<>>) =>
          \A k \in DOMAIN nb[1].log_priors.at :
             /\ k \in DOMAIN nb[1].word_log_prob
             /\ LET tbl == nb[1].word_log_prob[k]
                IN /\ DOMAIN tbl = nb[1].vocabulary
                   /\ \A w \in DOMAIN tbl :
                         /\ tbl[w].den = Numerators(tbl)
                         /\ tbl[w].den = WordsInClass(TrainingDocs, k)
                                         + nb[1].alpha * Cardinality(DOMAIN tbl)

\* a classifier trained with alpha > 0 on two classes and a two-valued feature
C2_Witness ==
    /\ CatTrained /\ self.alpha > 0 /\ outcome.op = "train"
    /\ Cardinality(LabelsIn(TrainingRows)) = 2
    /\ \E f \in Range(self.features[1]) : Cardinality(Unique(data[1], f)) = 2

C4_PriorFormula ==
    /\ CatTrained =>
          \A k \in LabelsIn(TrainingRows) :
             /\ k \in DOMAIN self.log_priors[1].at
             /\ LogEq(self.log_priors[1].at[k],
                      Log(RowsOfClass(TrainingRows, k) + self.alpha,
                          Len(TrainingRows)
                          + self.alpha * Cardinality(LabelsIn(TrainingRows))))
    /\ MnTrained =>
          \A k \in DocLabels(TrainingDocs) :
             /\ k \in DOMAIN nb[1].log_priors.at
             /\ LogEq(nb[1].log_priors.at[k],
                      Log(DocsOfClass(TrainingDocs, k) + nb[1].alpha,
                          Len(TrainingDocs)
                          + nb[1].alpha * Cardinality(DocLabels(TrainingDocs))))

\* C4 read over the whole shuffled corpus instead of the training split: the
\* label-to-count pairing alone
C4_OverWholeCorpus ==
    MnTrained =>
       \A k \in DocLabels(corpus[1]) :
          LogEq(nb[1].log_priors.at[k],
                Log(DocsOfClass(corpus[1], k) + nb[1].alpha,
                    Len(corpus[1]) + nb[1].alpha * Cardinality(DocLabels(corpus[1]))))

\* C4 for the categorical classifier alone
C4_CategoricalHalf ==
    CatTrained =>
       \A k \in LabelsIn(TrainingRows) :
          /\ k \in DOMAIN self.log_priors[1].at
          /\ LogEq(self.log_priors[1].at[k],
                   Log(RowsOfClass(TrainingRows, k) + self.alpha,
                       Len(TrainingRows)
                       + self.alpha * Cardinality(LabelsIn(TrainingRows))))

\* C5: the label predict / classify returns has a maximal score among the
\* labels frozen at training, and among labels of exactly equal maximal score
\* it is the one that sorts first lexicographically, whatever the order in
\* which the labels were first met in the training data.
C5_ArgmaxLexicographic ==
    (outcome.op \in {"predict", "classify"} /\ outcome.exc = "none") =>
        LET sc == outcome.scores.at
            r  == outcome.ret
        IN /\ r \in DOMAIN sc
           /\ \A k \in DOMAIN sc :
                 /\ ~ScoreLess(sc[r], sc[k])
                 /\ ScoreEq(sc[k], sc[r]) => LabelRank(r) <= LabelRank(k)

\* C5 without the tie-break: the returned label has a maximal score
C5_ReturnsAMaximum ==
    (outcome.op \in {"predict", "classify"} /\ outcome.exc = "none") =>
        /\ outcome.ret \in DOMAIN outcome.scores.at
        /\ \A k \in DOMAIN outcome.scores.at :
              ~ScoreLess(outcome.scores.at[outcome.ret], outcome.scores.at[k])

\* C6: predict on a trained categorical model with an instance that carries a
\* feature name not among the trained features ends in SchemaMismatchError;
\* the field is never ignored and no label is returned.  Stated for a model
\* trained on two classes and an instance that has every trained feature, with
\* values seen in training, and one more field.
C6_UnknownFeatureRejected ==
    (/\ outcome.op = "predict" /\ CatTrained
     /\ Cardinality(LabelsIn(TrainingRows)) >= 2
     /\ ExtraFeature \in DOMAIN new_instance
     /\ Range(self.features[1]) \subseteq DOMAIN new_instance
     /\ \A f \in Range(self.features[1]) : new_instance[f] \in Unique(data[1], f)) =>
        /\ outcome.exc = "SchemaMismatchError"
        /\ outcome.ret = "None"

\* C7: train with zero instances fails with EmptyTrainingSetError, train with
\* fewer than 2 distinct labels fails with SingleClassError, and either
\* failure leaves log_priors, the conditional table and the feature list
\* exactly as they were before the call.
C7_DegenerateTrainingFails ==
    [][(encoding = "categorical" /\ outcome'.op = "train") =>
          /\ data'[1].rows = <<>> =>
                (outcome'.exc = "EmptyTrainingSetError" /\ self' = self)
          /\ (data'[1].rows # <<>> /\ Cardinality(LabelsIn(data'[1].rows)) < 2) =>
                (outcome'.exc = "SingleClassError" /\ self' = self)]_vars

Permuted(seq, p) == [i \in DOMAIN seq |-> seq[p[i]]]

\* C8: train rebuilds from scratch: after any sequence of train calls the
\* object equals a fresh object of the same alpha trained once on the data of
\* the last call, and its tables hold only the labels, features and values of
\* that data.
C8_TrainRebuilds ==
    (CatTrained /\ data # None) =>
        LET lp  == self.log_priors[1].at
            ccp == self.class_conditional_probs[1]
        IN /\ self = train(NaiveBayesClassifier(self.alpha), data[1], target_class).self
           /\ DOMAIN lp = LabelsIn(TrainingRows)
           /\ DOMAIN ccp = LabelsIn(TrainingRows)
           /\ Range(self.features[1]) = Range(data[1].columns) \ {target_class}
           /\ \A k \in DOMAIN ccp :
                 /\ DOMAIN ccp[k] \subseteq Range(self.features[1])
                 /\ \A f \in DOMAIN ccp[k] : DOMAIN ccp[k][f] = Unique(data[1], f)

\* a second train call on the same object has completed
C8_Witness ==
    /\ CatTrained /\ outcome.op = "train" /\ train_calls = 2
    /\ Cardinality(LabelsIn(TrainingRows)) = 1

\* C9: the counts gathered in training are the same for every permutation of
\* the training instances, and every instance (and every word) is counted
\* exactly once.
C9_CountsOrderIndependent ==
    /\ (encoding = "categorical" /\ data # None) =>
          LET df == data[1]
              cf == class_frequencies(df, target_class, 1, EmptyDict)
          IN /\ Numerators([k \in DOMAIN cf.at |-> [num |-> cf.at[k]]]) = Len(df.rows)
             /\ \A k \in DOMAIN cf.at : cf.at[k] = RowsOfClass(df.rows, k)
             /\ \A p \in Permutations(DOMAIN df.rows) :
                   LET pdf == [df EXCEPT !.rows = Permuted(df.rows, p)]
                   IN /\ class_frequencies(pdf, target_class, 1, EmptyDict).at = cf.at
                      /\ \A f \in Range(feature_columns(df.columns, target_class)) :
                            /\ Unique(pdf, f) = Unique(df, f)
                            /\ \A k \in DOMAIN cf.at :
                                  /\ total_count(pdf, target_class, k, f)
                                       = total_count(df, target_class, k, f)
                                  /\ \A v \in Unique(df, f) :
                                        CountRows(pdf, target_class, k, f, v)
                                          = CountRows(df, target_class, k, f, v)
    /\ MnTrained =>
          LET g == nb[1]
              zero == [w \in g.vocabulary |-> 0]
          IN /\ g.words_in_spam = WordsInClass(TrainingDocs, "spam")
             /\ g.words_in_ham = WordsInClass(TrainingDocs, "ham")
             /\ \A k \in DOMAIN g.word_frequency :
                   Numerators([w \in g.vocabulary |-> [num |-> g.word_frequency[k][w]]])
                     = WordsOf(g, k)
             /\ \A p \in Permutations(DOMAIN TrainingDocs) :
                   LET pd == Permuted(TrainingDocs, p)
                   IN /\ vocabulary(pd, 1, {}) = g.vocabulary
                      /\ \A k \in DOMAIN g.word_frequency :
                            word_frequency(pd, k, 1, [freq |-> zero, total |-> 0])
                              = [freq |-> g.word_frequency[k], total |-> WordsOf(g, k)]
             /\ \A p \in Permutations(DOMAIN corpus[1]) :
                   value_counts(Permuted(corpus[1], p)) = value_counts(corpus[1])

\* training data of two different rows, so that a permutation changes it
C9_Witness ==
    /\ encoding = "categorical" /\ data # None /\ outcome.op = "train"
    /\ Len(TrainingRows) = 2
    /\ TrainingRows[1] # TrainingRows[2]

\* C10: once trained, a predict or classify call, also on an instance with
\* unseen values or tokens or with unknown fields, leaves the priors, the
\* conditional table, the vocabulary / feature domains and alpha as they were,
\* and leaves its argument as it was.
C10_ScoringReadsOnly ==
    [][((CatTrained \/ MnTrained) /\ outcome'.op \in {"predict", "classify"}) =>
          /\ self' = self
          /\ nb' = nb
          /\ new_instance' = new_instance
          /\ words' = words]_vars

\* predict has run on an instance with a value never seen in training
C10_Witness == outcome.op = "predict" /\ UnseenValue

\* a feature value of new_instance that no training row of class k has
NeverSeenInClass(k) ==
    \E f \in Range(self.features[1]) :
        CountRows(data[1], target_class, k, f, new_instance[f]) = 0

\* a word of the message that no training message of class k has
WordNeverSeenInClass(k) ==
    \E j \in DOMAIN words :
        \/ words[j] \notin nb[1].vocabulary
        \/ nb[1].word_frequency[k][words[j]] = 0

\* the score is minus infinity: the logarithm of 0 is among its terms
MinusInfinity(s) == s.num = 0

\* C11: with alpha = 0, a feature value (or word) never seen in class k during
\* training, whether another class has it or no class at all, has probability
\* exactly 0 for k, and scoring an instance that contains it raises nothing
\* and gives k the score minus infinity, not a finite number.
C11_ZeroAlphaMinusInfinity ==
    /\ (/\ outcome.op = "predict" /\ CatTrained /\ self.alpha = 0
        /\ TrainingRows # <<>>
        /\ DOMAIN new_instance = Range(self.features[1])) =>
          \A k \in DOMAIN self.log_priors[1].at :
             NeverSeenInClass(k) =>
                /\ outcome.exc = "none"
                /\ k \in DOMAIN outcome.scores.at
                /\ MinusInfinity(outcome.scores.at[k])
    /\ (outcome.op = "classify" /\ MnTrained /\ nb[1].alpha = 0) =>
          \A k \in DOMAIN nb[1].log_priors.at :
             WordNeverSeenInClass(k) =>
                /\ outcome.exc = "none"
                /\ k \in DOMAIN outcome.scores.at
                /\ MinusInfinity(outcome.scores.at[k])

\* C11 for values that some other class has: the stored probability is 0 and
\* the score is minus infinity, without an exception
C11_SeenInAnotherClass ==
    (/\ outcome.op = "predict" /\ CatTrained /\ self.alpha = 0
     /\ TrainingRows # <<>>
     /\ DOMAIN new_instance = Range(self.features[1])
     /\ \A f \in DOMAIN new_instance : new_instance[f] \in Unique(data[1], f)) =>
        /\ outcome.exc = "none"
        /\ \A k \in DOMAIN self.log_priors[1].at :
              /\ \A f \in DOMAIN new_instance :
                    CountRows(data[1], target_class, k, f, new_instance[f]) = 0
                      => self.class_conditional_probs[1][k][f][new_instance[f]].num = 0
              /\ NeverSeenInClass(k) => MinusInfinity(outcome.scores.at[k])

\* alpha = 0, a value another class has but class k has not, and predict has run
C11_SeenInAnotherClassReached ==
    /\ outcome.op = "predict" /\ CatTrained /\ self.alpha = 0
    /\ TrainingRows # <<>>
    /\ DOMAIN new_instance = Range(self.features[1])
    /\ \A f \in DOMAIN new_instance : new_instance[f] \in Unique(data[1], f)
    /\ \E k \in DOMAIN self.log_priors[1].at : NeverSeenInClass(k)

\* the spam cell never runs with another alpha than the 1 it assigns
SpamAlphaIsOne == MnTrained => nb[1].alpha = 1

====
